---------------------------- MODULE Spec2Model ----------------------------
(***************************************************************************)
(* A model of src/code_analyzer.py: the CodeAnalyzer engine (line pass,    *)
(* tree pass, resilient-parse loop, pending-warning queue) and its driver. *)
(*                                                                         *)
(* Text is a sequence of one-character strings.  Indices handed between    *)
(* operators are Python's (0-based, -1 for "not found"), as in the source. *)
(*                                                                         *)
(* ast.parse and the syntax tree are CPython's, not the repository's: a    *)
(* parse is a deterministic but otherwise unconstrained choice among the   *)
(* results the parser can give (a tree, an IndentationError or SyntaxError *)
(* at a line of the text, another exception), and the fields of a routine  *)
(* node are drawn when visit_FunctionDef reads them.  The outcome of the   *)
(* two name-style regular expressions on an identifier is a drawn boolean. *)
(*                                                                         *)
(* Fields that every loop iteration overwrites before reading them         *)
(* (string, hash_index, match_object, file_list_of_lines) are LET-bound in *)
(* the action that uses them; last_3_lines_queue is never read by the      *)
(* source and is left out.  The alphabets below hold no letter of "def" or *)
(* "class", so _get_groups matches no modelled line and S007-S009 are      *)
(* silent.                                                                 *)
(*                                                                         *)
(* env names the surroundings of a run: which command lines, file          *)
(* contents, parser errors and node kinds they can supply.  The            *)
(* specifications differ only in env; the actions are the same.            *)
(***************************************************************************)
EXTENDS Integers, Sequences, FiniteSets, Bags, TLC

VARIABLES
    pc,                  \* control location of the single thread
    path,                \* self.path
    directory_path,      \* self.directory_path
    entries_list,        \* check_path's sorted list of file names
    entry_pos,           \* position of check_path's loop in entries_list
    line_number,         \* self.line_number
    blank_lines_counter, \* self.blank_lines_counter
    warning_queue,       \* self.warning_queue
    file_text,           \* self.file_text
    disk,                \* the content of the file at self.path
    last_error,          \* what ast.parse raised on the present file_text
    tree,                \* the tree ast.parse returned
    visit_pos,           \* next node of the tree in document order
    visited,             \* nodes visit_FunctionDef has run on, in order
    list_item,           \* the statement of node.body last walked
    body_index,          \* how many statements of node.body were walked
    file2,               \* lines the line pass has still to read
    printed,             \* what was printed for the file at self.path
    placed,              \* findings the tree pass appended for this file
    env                  \* the name of the surroundings of this run

vars == <<pc, path, directory_path, entries_list, entry_pos, line_number,
          blank_lines_counter, warning_queue, file_text, disk, last_error,
          tree, visit_pos, visited, list_item, body_index, file2, printed, placed, env>>

---------------------------------------------------------------------------
(* Bounds of the model. *)

MaxLines == 2
MaxFiles == 2
MaxNodes == 2
MaxArgs == 1
MaxTargets == 1
MaxElts == 1
MaxDefaults == 1
MaxQueue == 2
MaxBody == 1
MaxLineLen == 81
MaxSemiLen == 4
MaxBlankLines == 5

(* Constants of the program. *)

LineLimit == 79
IndentUnit == 4
BlankLimit == 3

---------------------------------------------------------------------------
(* Characters. *)

NL == "\n"
SP == " "
SEMI == ";"
HASH == "#"
DQ == "\""
SQ == "'"
Whitespace == {SP, NL}

---------------------------------------------------------------------------
(* Python's str operations. *)

Max(a, b) == IF a >= b THEN a ELSE b
Min(a, b) == IF a <= b THEN a ELSE b
MinOf(S) == CHOOSE i \in S : \A j \in S : i <= j

PyIndex(i, n) == IF i < 0 THEN Max(i + n, 0) ELSE Min(i, n)

Slice(s, a, b) ==
    LET lo == PyIndex(a, Len(s))
        hi == PyIndex(b, Len(s))
    IN  IF lo >= hi THEN <<>> ELSE SubSeq(s, lo + 1, hi)

Contains(s, c) == \E i \in 1..Len(s) : s[i] = c

Count(s, c) == Cardinality({i \in 1..Len(s) : s[i] = c})

Find(s, c, start) ==
    LET hits == {i \in start..(Len(s) - 1) : s[i + 1] = c}
    IN  IF hits = {} THEN -1 ELSE MinOf(hits)

StartsWith(s, p) == Len(s) >= Len(p) /\ SubSeq(s, 1, Len(p)) = p

EndsWith(s, p) == Len(s) >= Len(p) /\ SubSeq(s, Len(s) - Len(p) + 1, Len(s)) = p

ContainsSeq(s, p) == \E i \in 0..(Len(s) - Len(p)) : SubSeq(s, i + 1, i + Len(p)) = p

RECURSIVE LStrip(_)
LStrip(s) == IF s # <<>> /\ Head(s) \in Whitespace THEN LStrip(Tail(s)) ELSE s

Casefold(s) ==
    [i \in 1..Len(s) |->
        CASE s[i] = "T" -> "t" [] s[i] = "O" -> "o" [] s[i] = "D" -> "d"
          [] OTHER -> s[i]]

RECURSIVE splitlines(_)
splitlines(text) ==
    IF text = <<>> THEN <<>>
    ELSE LET nl == Find(text, NL, 0)
         IN  IF nl = -1 THEN <<text>>
             ELSE <<SubSeq(text, 1, nl + 1)>> \o splitlines(SubSeq(text, nl + 2, Len(text)))

RECURSIVE Join(_)
Join(lines) == IF lines = <<>> THEN <<>> ELSE Head(lines) \o Join(Tail(lines))

---------------------------------------------------------------------------
(* The line rules. *)

refresh_hash_index(string) ==
    IF Contains(string, HASH) THEN Find(string, HASH, 0) ELSE Len(string)

check_line_length(string) == Len(string) > LineLimit

RECURSIVE LeadingSpaces(_)
LeadingSpaces(s) == IF StartsWith(s, <<SP>>) THEN 1 + LeadingSpaces(Tail(s)) ELSE 0

check_indentation(string) == LeadingSpaces(string) % IndentUnit # 0

(* find_extra_semicolon returns <<index>>, or <<>> for None. *)
RECURSIVE fes_semicolons(_, _, _, _, _, _)
RECURSIVE fes_hashes(_, _, _, _, _, _, _)
fes_hashes(string, k, j, semicolon_index, hash_index, semicolon_amount, hash_amount) ==
    IF j = hash_amount
    THEN fes_semicolons(string, k + 1, semicolon_index, hash_index, semicolon_amount, hash_amount)
    ELSE IF \/ semicolon_index > hash_index
            \/ Contains(Slice(string, semicolon_index + 1, hash_index), DQ)
            \/ Contains(Slice(string, semicolon_index + 1, hash_index), SQ)
         THEN fes_hashes(string, k, j + 1, semicolon_index,
                         IF hash_amount > 1 THEN Find(string, HASH, hash_index + 1) ELSE hash_index,
                         semicolon_amount, hash_amount)
         ELSE <<semicolon_index>>

fes_semicolons(string, k, semicolon_index, hash_index, semicolon_amount, hash_amount) ==
    IF k = semicolon_amount THEN <<>>
    ELSE fes_hashes(string, k, 0, Find(string, SEMI, semicolon_index + 1), hash_index,
                    semicolon_amount, hash_amount)

find_extra_semicolon(string) ==
    fes_semicolons(string, 0, -1,
                   IF Contains(string, HASH) THEN Find(string, HASH, 0) ELSE Len(string),
                   Count(string, SEMI),
                   IF Count(string, HASH) = 0 THEN 1 ELSE Count(string, SEMI))

(* Python's truth value of find_extra_semicolon's result: None and 0 are false. *)
Truthy(r) == r # <<>> /\ r[1] # 0

check_semicolon(string) == Contains(string, SEMI) /\ Truthy(find_extra_semicolon(string))

check_comment_spaces(string, hash_index) ==
    /\ Contains(string, HASH)
    /\ ~StartsWith(LStrip(string), <<HASH>>)
    /\ ~EndsWith(Slice(string, 0, hash_index), <<SP, SP>>)

check_is_todo(string, hash_index) ==
    /\ Contains(string, HASH)
    /\ ContainsSeq(Casefold(Slice(string, hash_index + 1, Len(string))), <<"t", "o", "d", "o">>)

is_blank(string) == StartsWith(string, <<NL>>) \/ StartsWith(string, <<"\r">>)

(* The test a reading of S006's message ("more than two") would make. *)
fires_from_limit(counter) == counter >= BlankLimit

blank_run_fires(counter) == counter = BlankLimit

check_blank_lines_print(string, counter) == ~is_blank(string) /\ blank_run_fires(counter)

check_blank_lines_counter(string, counter) == IF is_blank(string) THEN counter + 1 ELSE 0



---------------------------------------------------------------------------
(* Values. *)

NoPath == [kind |-> "", name |-> 0]
ProgPath == [kind |-> "code_analyzer.py", name |-> 0]
FilePath == [kind |-> "file.py", name |-> 0]
DirPath == [kind |-> "dir", name |-> 0]
EntryPath(directory, file_name) == [kind |-> "dir/entry", name |-> file_name]

endswith_py(p) == p.kind = "file.py"

NoError == [kind |-> "none", lineno |-> 0]

NoStatement == [kind |-> "none", targets |-> <<>>]

Finding(key, line, code) == [key |-> key, line |-> line, code |-> code]

Printed(code, line, pass, key, at) ==
    [code |-> code, line |-> line, pass |-> pass, key |-> key, at |-> at]

SeqsUpTo(S, n) == UNION {[1..k -> S] : k \in 0..n}

RECURSIVE SeqToBag(_)
SeqToBag(s) == IF s = <<>> THEN EmptyBag ELSE SetToBag({Head(s)}) (+) SeqToBag(Tail(s))

RECURSIVE SortedNames(_)
SortedNames(S) ==
    IF S = {} THEN <<>> ELSE <<MinOf(S)>> \o SortedNames(S \ {MinOf(S)})

---------------------------------------------------------------------------
(* What the environment can hand to the program. *)

ArgvChoices ==
    {<<ProgPath>>, <<ProgPath, FilePath>>, <<ProgPath, DirPath>>,
     <<ProgPath, FilePath, FilePath>>}

OneFileArgv == {<<ProgPath, FilePath>>}

LineChoices == {<<NL>>, <<"x", NL>>, <<SP, "x", NL>>, <<"x", SEMI, NL>>}

Texts == {Join(ls) : ls \in SeqsUpTo(LineChoices, MaxLines)}

Terminators == {<<>>, <<NL>>}

LengthTexts == {[i \in 1..n |-> "x"] \o t : n \in 0..MaxLineLen, t \in Terminators}

SemiTexts ==
    {b \o t : b \in SeqsUpTo({SEMI, HASH, DQ, SQ, "x"}, MaxSemiLen), t \in Terminators}

BlankTexts == {Join(ls) : ls \in SeqsUpTo({<<NL>>, <<"x", NL>>, <<SP, NL>>}, MaxBlankLines)}

ParseErrors == {"IndentationError", "SyntaxError", "OtherError"}

AnyEnv ==
    [argv |-> ArgvChoices, texts |-> Texts, errors |-> ParseErrors,
     kinds |-> {"FunctionDef", "ClassDef"}]

(* One file of lines that parse at once and hold no compound statement. *)
LinePassEnv ==
    [argv |-> OneFileArgv, texts |-> LengthTexts \cup SemiTexts \cup BlankTexts,
     errors |-> {}, kinds |-> {}]

(* One file without compound statements, which the parser may reject. *)
RepairEnv ==
    [argv |-> OneFileArgv, texts |-> Texts, errors |-> ParseErrors, kinds |-> {}]

(* env names the surroundings of the run. *)
Surroundings ==
    CASE env = "AnyEnv" -> AnyEnv
      [] env = "LinePassEnv" -> LinePassEnv
      [] env = "RepairEnv" -> RepairEnv

Linenos(text) == 1..Len(splitlines(text))

(* A tree is its compound nodes in document order, each with its kind and *)
(* the index of its parent (0: the Module).  "ClassDef" stands for every   *)
(* compound node for which CodeAnalyzer defines no visit_ method.          *)
RECURSIVE AncestorsOrSelf(_, _)
AncestorsOrSelf(t, i) ==
    IF i = 0 THEN {0} ELSE {i} \cup AncestorsOrSelf(t, t[i].parent)

DocumentOrder(t) ==
    \A i \in 1..Len(t) :
        t[i].parent \in (IF i = 1 THEN {0} ELSE AncestorsOrSelf(t, i - 1))

(* The lines a node of the tree can be at: those that are not blank. *)
CodeLinenos(text) == {i \in Linenos(text) : ~is_blank(splitlines(text)[i])}

Trees(text) ==
    {t \in SeqsUpTo([kind : Surroundings.kinds, parent : 0..(MaxNodes - 1)],
                    Min(MaxNodes, Cardinality(CodeLinenos(text)))) : DocumentOrder(t)}

ParseResults(text) ==
    {[kind |-> "Module", lineno |-> 0, tree |-> t] : t \in Trees(text)}
    \cup {[kind |-> k, lineno |-> l, tree |-> <<>>] :
            k \in Surroundings.errors \ {"OtherError"}, l \in Linenos(text)}
    \cup {[kind |-> k, lineno |-> 0, tree |-> <<>>] : k \in Surroundings.errors \cap {"OtherError"}}

ArgLists(text) == SeqsUpTo([snake : BOOLEAN, lineno : CodeLinenos(text)], MaxArgs)

Elts(text, from) ==
    SeqsUpTo([kind : {"Name", "Attribute"}, snake : BOOLEAN,
              lineno : {l \in CodeLinenos(text) : l >= from}], MaxElts)

Targets(text) ==
    {[kind |-> "Name", snake |-> s, lineno |-> l, elts |-> <<>>] :
        s \in BOOLEAN, l \in CodeLinenos(text)}
    \cup UNION {{[kind |-> "Tuple", snake |-> TRUE, lineno |-> l, elts |-> e] :
                    e \in Elts(text, l)} : l \in CodeLinenos(text)}
    \cup {[kind |-> "Attribute", snake |-> TRUE, lineno |-> l, elts |-> <<>>] :
            l \in CodeLinenos(text)}

(* An AnnAssign has one `target`, held here as the only element of targets. *)
Statements(text) ==
    {[kind |-> "Assign", targets |-> ts] : ts \in SeqsUpTo(Targets(text), MaxTargets) \ {<<>>}}
    \cup {[kind |-> "AnnAssign", targets |-> <<t>>] :
            t \in {x \in Targets(text) : x.kind = "Name"}}
    \cup {[kind |-> "Expr", targets |-> <<>>]}

DefaultLists(text) == SeqsUpTo([mutable : BOOLEAN, lineno : CodeLinenos(text)], MaxDefaults)

---------------------------------------------------------------------------
(* The tree pass. *)

Reached(t, i) ==
    \A a \in AncestorsOrSelf(t, t[i].parent) \ {0} : t[a].kind # "FunctionDef"

NextReached(t, from) ==
    LET R == {i \in from..Len(t) : Reached(t, i)}
    IN  IF R = {} THEN Len(t) + 1 ELSE MinOf(R)

RECURSIVE check_argument_name(_)
check_argument_name(args) ==
    IF args = <<>> THEN <<>>
    ELSE IF ~Head(args).snake
         THEN <<Finding(Head(args).lineno, Head(args).lineno, "S010")>>
         ELSE check_argument_name(Tail(args))

(* The result of a walk: the findings appended, and whether it raised. *)
Walked(findings, raised) == [findings |-> findings, raised |-> raised]

RECURSIVE clvn_elts(_, _)
clvn_elts(item, elts) ==
    IF elts = <<>> THEN Walked(<<>>, FALSE)
    ELSE IF Head(elts).kind # "Name" THEN Walked(<<>>, TRUE)
    ELSE IF ~Head(elts).snake
         THEN Walked(<<Finding(item.lineno, Head(elts).lineno, "S011")>>, FALSE)
         ELSE clvn_elts(item, Tail(elts))

RECURSIVE clvn_targets(_)
clvn_targets(targets) ==
    IF targets = <<>> THEN Walked(<<>>, FALSE)
    ELSE LET item == Head(targets)
         IN  IF item.kind = "Name"
             THEN IF ~item.snake
                  THEN Walked(<<Finding(item.lineno, item.lineno, "S011")>>, FALSE)
                  ELSE clvn_targets(Tail(targets))
             ELSE IF item.kind = "Tuple"
             THEN LET r == clvn_elts(item, item.elts)
                  IN  IF r.raised THEN r
                      ELSE LET rest == clvn_targets(Tail(targets))
                           IN  Walked(r.findings \o rest.findings, rest.raised)
             ELSE clvn_targets(Tail(targets))

(* One iteration of check_local_variable_name's loop over node.body. *)
check_local_variable_name(statement) ==
    IF statement.kind \notin {"Assign", "AnnAssign"} THEN Walked(<<>>, FALSE)
    ELSE IF statement.kind = "AnnAssign" THEN Walked(<<>>, TRUE)
    ELSE clvn_targets(statement.targets)

RECURSIVE is_default_argument_mutable(_)
is_default_argument_mutable(arguments_list) ==
    IF arguments_list = <<>> THEN <<>>
    ELSE IF Head(arguments_list).mutable
         THEN <<Finding(Head(arguments_list).lineno, Head(arguments_list).lineno, "S012")>>
         ELSE is_default_argument_mutable(Tail(arguments_list))

RECURSIVE sorted(_)
sorted(queue) ==
    IF queue = <<>> THEN <<>>
    ELSE LET rest == sorted(Tail(queue))
             k == Cardinality({i \in 1..Len(rest) : rest[i].key < Head(queue).key})
         IN  SubSeq(rest, 1, k) \o <<Head(queue)>> \o SubSeq(rest, k + 1, Len(rest))

(* check_warning_queue: how many entries it pops at this line number. *)
RECURSIVE check_warning_queue(_, _)
check_warning_queue(queue, n) ==
    IF queue # <<>> /\ Head(queue).key = n
    THEN 1 + check_warning_queue(Tail(queue), n)
    ELSE 0

(* A line pass fed from self.file_text instead of a second open(self.path). *)
reread_working_text == splitlines(file_text)

OpenFile2 == splitlines(disk)

---------------------------------------------------------------------------
(* The line pass on one line: what run_checks prints for it, in order. *)

Rule(fires, code, n) == IF fires THEN <<Printed(code, n, "line", n, n)>> ELSE <<>>

LineFindings(string, n, counter) ==
    LET hash_index == refresh_hash_index(string)
    IN  Rule(check_line_length(string), "S001", n)
        \o Rule(check_indentation(string), "S002", n)
        \o Rule(check_semicolon(string), "S003", n)
        \o Rule(check_comment_spaces(string, hash_index), "S004", n)
        \o Rule(check_is_todo(string, hash_index), "S005", n)
        \o Rule(check_blank_lines_print(string, counter), "S006", n)

Popped(queue, k, n) ==
    [i \in 1..k |-> Printed(queue[i].code, queue[i].line, "tree", queue[i].key, n)]

---------------------------------------------------------------------------
(* The state after CodeAnalyzer() is constructed, in environment e. *)

Constructed(e) ==
    /\ pc = "run"
    /\ path = NoPath
    /\ directory_path = NoPath
    /\ entries_list = <<>>
    /\ entry_pos = 1
    /\ line_number = 1
    /\ blank_lines_counter = 0
    /\ warning_queue = <<>>
    /\ file_text = <<>>
    /\ disk = <<>>
    /\ last_error = NoError
    /\ tree = <<>>
    /\ visit_pos = 1
    /\ visited = <<>>
    /\ list_item = NoStatement
    /\ body_index = 0
    /\ file2 = <<>>
    /\ printed = <<>>
    /\ placed = EmptyBag
    /\ env = e

Init == Constructed("AnyEnv")

---------------------------------------------------------------------------
(* The driver. *)

run ==
    /\ pc = "run"
    /\ \E command_line_arguments \in Surroundings.argv :
        IF Len(command_line_arguments) = 2
        THEN /\ path' = command_line_arguments[2]
             /\ pc' = "check_path"
             /\ printed' = printed
        ELSE /\ path' = path
             /\ pc' = "done"
             /\ printed' = Append(printed, Printed("arguments", 0, "run", 0, 0))
    /\ UNCHANGED <<directory_path, entries_list, entry_pos, line_number,
                   blank_lines_counter, warning_queue, file_text, disk, last_error,
                   tree, visit_pos, visited, list_item, body_index, file2, placed, env>>

check_path ==
    /\ pc = "check_path"
    /\ IF endswith_py(path)
       THEN /\ pc' = "built_ast"
            /\ UNCHANGED <<directory_path, entries_list>>
       ELSE /\ directory_path' = path
            /\ \E files \in 0..MaxFiles : entries_list' = SortedNames(1..files)
            /\ pc' = "check_path_loop"
    /\ UNCHANGED <<path, entry_pos, line_number, blank_lines_counter, warning_queue,
                   file_text, disk, last_error, tree, visit_pos, visited, list_item, body_index,
                   file2, printed, placed, env>>

check_path_loop ==
    /\ pc = "check_path_loop"
    /\ IF entry_pos <= Len(entries_list)
       THEN /\ path' = EntryPath(directory_path, entries_list[entry_pos])
            /\ line_number' = 1
            /\ pc' = "built_ast"
       ELSE /\ pc' = "done"
            /\ UNCHANGED <<path, line_number>>
    /\ UNCHANGED <<directory_path, entries_list, entry_pos, blank_lines_counter,
                   warning_queue, file_text, disk, last_error, tree, visit_pos,
                   visited, list_item, body_index, file2, printed, placed, env>>

---------------------------------------------------------------------------
(* built_ast: the read, then the resilient-parse loop. *)

built_ast ==
    /\ pc = "built_ast"
    /\ \E text \in Surroundings.texts :
        /\ disk' = text
        /\ file_text' = text
    /\ pc' = "ast_parse"
    /\ last_error' = NoError
    /\ tree' = <<>>
    /\ visit_pos' = 1
    /\ visited' = <<>>
    /\ list_item' = NoStatement
    /\ body_index' = 0
    /\ file2' = <<>>
    /\ printed' = <<>>
    /\ placed' = EmptyBag
    /\ UNCHANGED <<path, directory_path, entries_list, entry_pos, line_number,
                   blank_lines_counter, warning_queue, env>>

ast_parse ==
    /\ pc = "ast_parse"
    /\ \E r \in ParseResults(file_text) :
        /\ last_error # NoError => (r.kind = last_error.kind /\ r.lineno = last_error.lineno)
        /\ pc' = CASE r.kind = "Module" -> "generic_visit"
                   [] r.kind = "IndentationError" -> "fix_indentation_error"
                   [] r.kind = "SyntaxError" -> "fix_syntax_error"
                   [] OTHER -> "fatal"
        /\ tree' = r.tree
        /\ last_error' = IF r.kind \in {"IndentationError", "SyntaxError"}
                         THEN [kind |-> r.kind, lineno |-> r.lineno]
                         ELSE NoError
    /\ UNCHANGED <<path, directory_path, entries_list, entry_pos, line_number,
                   blank_lines_counter, warning_queue, file_text, disk, visit_pos,
                   visited, list_item, body_index, file2, printed, placed, env>>

fix_indentation_error ==
    /\ pc = "fix_indentation_error"
    /\ LET file_list_of_lines == splitlines(file_text)
           error_location == last_error.lineno - 1
       IN  IF error_location >= Len(file_list_of_lines)
           THEN /\ pc' = "fatal"
                /\ UNCHANGED <<file_text, last_error>>
           ELSE /\ file_text' = Join([file_list_of_lines EXCEPT
                                        ![error_location + 1] = LStrip(@)])
                /\ pc' = "ast_parse"
                /\ last_error' = IF file_text' = file_text THEN last_error ELSE NoError
    /\ UNCHANGED <<path, directory_path, entries_list, entry_pos, line_number,
                   blank_lines_counter, warning_queue, disk, tree, visit_pos, visited,
                   list_item, body_index, file2, printed, placed, env>>

fix_syntax_error ==
    /\ pc = "fix_syntax_error"
    /\ LET file_list_of_lines == splitlines(file_text)
           error_location == last_error.lineno - 1
       IN  IF error_location >= Len(file_list_of_lines)
           THEN /\ pc' = "fatal"
                /\ UNCHANGED <<file_text, last_error>>
           ELSE LET line == file_list_of_lines[error_location + 1]
                    semicolon_index == find_extra_semicolon(line)
                IN  IF semicolon_index = <<>>
                    THEN /\ pc' = "fatal"
                         /\ UNCHANGED <<file_text, last_error>>
                    ELSE /\ file_text' = Join([file_list_of_lines EXCEPT
                                ![error_location + 1] =
                                    Slice(line, 0, semicolon_index[1])
                                    \o Slice(line, semicolon_index[1] + 1, Len(line))])
                         /\ pc' = "ast_parse"
                         /\ last_error' = IF file_text' = file_text THEN last_error ELSE NoError
    /\ UNCHANGED <<path, directory_path, entries_list, entry_pos, line_number,
                   blank_lines_counter, warning_queue, disk, tree, visit_pos, visited,
                   list_item, body_index, file2, printed, placed, env>>

---------------------------------------------------------------------------
(* generic_visit(tree) and visit_FunctionDef. *)

generic_visit_child ==
    /\ pc = "generic_visit"
    /\ NextReached(tree, visit_pos) <= Len(tree)
    /\ tree[NextReached(tree, visit_pos)].kind # "FunctionDef"
    /\ visit_pos' = NextReached(tree, visit_pos) + 1
    /\ UNCHANGED <<pc, path, directory_path, entries_list, entry_pos, line_number,
                   blank_lines_counter, warning_queue, file_text, disk, last_error,
                   tree, visited, list_item, body_index, file2, printed, placed, env>>

visit_FunctionDef_arguments ==
    /\ pc = "generic_visit"
    /\ NextReached(tree, visit_pos) <= Len(tree)
    /\ tree[NextReached(tree, visit_pos)].kind = "FunctionDef"
    /\ visit_pos' = NextReached(tree, visit_pos) + 1
    /\ visited' = Append(visited, NextReached(tree, visit_pos))
    /\ \E args \in ArgLists(file_text) :
        /\ Len(warning_queue) + Len(check_argument_name(args)) <= MaxQueue
        /\ warning_queue' = warning_queue \o check_argument_name(args)
        /\ placed' = placed (+) SeqToBag(check_argument_name(args))
    /\ list_item' = NoStatement
    /\ body_index' = 0
    /\ pc' = "check_local_variable_name"
    /\ UNCHANGED <<path, directory_path, entries_list, entry_pos, line_number,
                   blank_lines_counter, file_text, disk, last_error, tree, file2,
                   printed, env>>

visit_FunctionDef_statement ==
    /\ pc = "check_local_variable_name"
    /\ body_index < MaxBody
    /\ body_index' = body_index + 1
    /\ \E statement \in Statements(file_text) :
        LET walk == check_local_variable_name(statement)
        IN  /\ Len(warning_queue) + Len(walk.findings) <= MaxQueue
            /\ list_item' = statement
            /\ warning_queue' = warning_queue \o walk.findings
            /\ placed' = placed (+) SeqToBag(walk.findings)
            /\ pc' = IF walk.raised THEN "fatal" ELSE "check_local_variable_name"
    /\ UNCHANGED <<path, directory_path, entries_list, entry_pos, line_number,
                   blank_lines_counter, file_text, disk, last_error, tree, visit_pos,
                   visited, file2, printed, env>>

visit_FunctionDef_defaults ==
    /\ pc = "check_local_variable_name"
    /\ body_index > 0
    /\ \E arguments_list \in DefaultLists(file_text) :
        /\ Len(warning_queue) + Len(is_default_argument_mutable(arguments_list)) <= MaxQueue
        /\ warning_queue' = sorted(warning_queue \o is_default_argument_mutable(arguments_list))
        /\ placed' = placed (+) SeqToBag(is_default_argument_mutable(arguments_list))
    /\ list_item' = NoStatement
    /\ body_index' = 0
    /\ pc' = "generic_visit"
    /\ UNCHANGED <<path, directory_path, entries_list, entry_pos, line_number,
                   blank_lines_counter, file_text, disk, last_error, tree, visit_pos,
                   visited, file2, printed, env>>

generic_visit_return ==
    /\ pc = "generic_visit"
    /\ NextReached(tree, visit_pos) > Len(tree)
    /\ file2' = OpenFile2
    /\ pc' = "line_pass"
    /\ UNCHANGED <<path, directory_path, entries_list, entry_pos, line_number,
                   blank_lines_counter, warning_queue, file_text, disk, last_error,
                   tree, visit_pos, visited, list_item, body_index, printed, placed, env>>

---------------------------------------------------------------------------
(* The loop of run_checks over the lines of the file. *)

run_checks_line ==
    /\ pc = "line_pass"
    /\ file2 # <<>>
    /\ LET string == Head(file2)
           k == check_warning_queue(warning_queue, line_number)
       IN  /\ printed' = printed
                         \o LineFindings(string, line_number, blank_lines_counter)
                         \o Popped(warning_queue, k, line_number)
           /\ blank_lines_counter' = check_blank_lines_counter(string, blank_lines_counter)
           /\ warning_queue' = SubSeq(warning_queue, k + 1, Len(warning_queue))
    /\ line_number' = line_number + 1
    /\ file2' = Tail(file2)
    /\ UNCHANGED <<pc, path, directory_path, entries_list, entry_pos, file_text, disk,
                   last_error, tree, visit_pos, visited, list_item, body_index, placed, env>>

run_checks_return ==
    /\ pc = "line_pass"
    /\ file2 = <<>>
    /\ IF directory_path = NoPath
       THEN /\ pc' = "done"
            /\ entry_pos' = entry_pos
       ELSE /\ pc' = "check_path_loop"
            /\ entry_pos' = entry_pos + 1
    /\ UNCHANGED <<path, directory_path, entries_list, line_number,
                   blank_lines_counter, warning_queue, file_text, disk, last_error,
                   tree, visit_pos, visited, list_item, body_index, file2, printed, placed, env>>

---------------------------------------------------------------------------
(* The specifications: one program, three environments. *)

Next ==
    \/ run
    \/ check_path
    \/ check_path_loop
    \/ built_ast
    \/ ast_parse
    \/ fix_indentation_error
    \/ fix_syntax_error
    \/ generic_visit_child
    \/ visit_FunctionDef_arguments
    \/ visit_FunctionDef_statement
    \/ visit_FunctionDef_defaults
    \/ generic_visit_return
    \/ run_checks_line
    \/ run_checks_return

Spec == Init /\ [][Next]_vars

(* Without compound statements the tree is empty and nothing is visited; *)
(* with one file named on the command line check_path never loops.       *)
NextRepair ==
    \/ run
    \/ check_path
    \/ built_ast
    \/ ast_parse
    \/ fix_indentation_error
    \/ fix_syntax_error
    \/ generic_visit_return
    \/ run_checks_line
    \/ run_checks_return

SpecRepair == Constructed("RepairEnv") /\ [][NextRepair]_vars

(* A parser that raises nothing never sends built_ast to a repair. *)
NextLinePass ==
    \/ run
    \/ check_path
    \/ built_ast
    \/ ast_parse
    \/ generic_visit_return
    \/ run_checks_line
    \/ run_checks_return

SpecLinePass == Constructed("LinePassEnv") /\ [][NextLinePass]_vars


---------------------------------------------------------------------------
(* What the properties below speak of. *)

Lines == splitlines(disk)

(* The lines the line pass of a run on one file has processed so far. *)
ProcessedLines == 1..(line_number - 1)

(* How many times `code` was printed for line n of the current file. *)
Emitted(code, n) ==
    Cardinality({i \in 1..Len(printed) : printed[i].code = code /\ printed[i].line = n})

(* The findings of the tree pass printed so far, as they were queued. *)
Delivered ==
    LET T == SelectSeq(printed, LAMBDA r : r.pass = "tree")
    IN  [i \in 1..Len(T) |-> Finding(T[i].key, T[i].line, T[i].code)]

(* The processing of the current file is over: it returned or it raised. *)
FileEnded ==
    \/ pc \in {"fatal", "check_path_loop"}
    \/ pc = "line_pass" /\ file2 = <<>>
    \/ pc = "done" /\ path # NoPath

(* A line without its terminator. *)
Content(string) ==
    IF EndsWith(string, <<NL>>) THEN SubSeq(string, 1, Len(string) - 1) ELSE string

(* 1-based position of the first '#' of a line, or one past its end. *)
CommentStart(string) ==
    IF Contains(string, HASH) THEN Find(string, HASH, 0) + 1 ELSE Len(string) + 1

(* A semicolon before the first '#' with no quote between it and the '#'. *)
QualifyingSemicolon(string) ==
    \E i \in 1..(CommentStart(string) - 1) :
        /\ string[i] = SEMI
        /\ \A j \in (i + 1)..(CommentStart(string) - 1) : string[j] \notin {DQ, SQ}

RECURSIVE BlankRunBefore(_, _)
BlankRunBefore(lines, n) ==
    IF n > 1 /\ lines[n - 1] = <<NL>> THEN 1 + BlankRunBefore(lines, n - 1) ELSE 0

(* What a line pass over `lines` prints when no finding is queued. *)
RECURSIVE LinePassOutput(_, _, _)
LinePassOutput(lines, n, counter) ==
    IF lines = <<>> THEN <<>>
    ELSE LineFindings(Head(lines), n, counter)
         \o LinePassOutput(Tail(lines), n + 1, check_blank_lines_counter(Head(lines), counter))

---------------------------------------------------------------------------
(* C1: the diagnostics of a file are printed in non-decreasing order of  *)
(* the line they report, and of two diagnostics reporting the same line *)
(* the one of the line pass is printed before the one of the tree pass. *)
C1_OutputAscending ==
    \A i \in 1..Len(printed) : \A j \in (i + 1)..Len(printed) :
        /\ printed[i].line <= printed[j].line
        /\ printed[i].line = printed[j].line
              => ~(printed[i].pass = "tree" /\ printed[j].pass = "line")

(* C2: in directory mode, when the processing of a file begins the line *)
(* number is 1, the blank-run counter is 0 and the queue is empty.       *)
C2_FileStartsReset ==
    (pc = "built_ast" /\ directory_path # NoPath)
        => /\ line_number = 1
           /\ blank_lines_counter = 0
           /\ warning_queue = <<>>

(* C3: S001 is printed for a processed line once if its length without *)
(* the line terminator exceeds 79, and not at all otherwise.            *)
C3_TooLongLine ==
    \A n \in ProcessedLines :
        Emitted("S001", n) = IF Len(Content(Lines[n])) > LineLimit THEN 1 ELSE 0

(* C4: S003 is printed for a processed line once if the line has a       *)
(* semicolon before its first '#' (or has no '#') with no quote between  *)
(* the semicolon and the '#' (or the end), and not at all otherwise.     *)
C4_StraySemicolon ==
    \A n \in ProcessedLines :
        Emitted("S003", n) = IF QualifyingSemicolon(Lines[n]) THEN 1 ELSE 0

(* C5, as the code has it: the line pass reads the lines of the file as *)
(* it is on disk, repaired or not, and prints what the line rules give  *)
(* on those lines.                                                      *)
C5_LinePassReadsFile ==
    pc = "line_pass"
        => /\ file2 = SubSeq(Lines, line_number, Len(Lines))
           /\ printed = LinePassOutput(SubSeq(Lines, 1, line_number - 1), 1, 0)

(* C5, as stated: the line pass reads the lines of the repaired text, so *)
(* both passes of a file observe the same content.                       *)
C5_LinePassReadsRepaired ==
    pc = "line_pass"
        => file2 = SubSeq(splitlines(file_text), line_number, Len(splitlines(file_text)))

(* A repaired file of which the line pass has printed a finding. *)
C5_RepairedAndRead ==
    /\ pc = "line_pass"
    /\ file_text # disk
    /\ line_number > 1
    /\ printed # <<>>

C7_EveryRoutineVisited ==
    pc = "line_pass"
        => \A i \in 1..Len(tree) :
              tree[i].kind = "FunctionDef"
                  => Cardinality({j \in 1..Len(visited) : visited[j] = i}) = 1

(* C8: the walk of a body statement that is an annotated assignment     *)
(* queues one S011 finding at the target's line if the name fails the   *)
(* snake_case test, none if it passes, and goes on to the next statement. *)
C8_AnnAssignInspected ==
    [][(pc = "check_local_variable_name" /\ body_index' = body_index + 1
            /\ list_item'.kind = "AnnAssign")
        => /\ pc' = "check_local_variable_name"
           /\ warning_queue' = warning_queue \o
                (IF list_item'.targets[1].snake THEN <<>>
                 ELSE <<Finding(list_item'.targets[1].lineno,
                                list_item'.targets[1].lineno, "S011")>>)]_vars

(* C9: a repair step changes the stored text or raises a fatal error. *)
C9_RepairProgresses ==
    [][(pc = "fix_indentation_error" \/ pc = "fix_syntax_error")
        => (file_text' # file_text \/ pc' = "fatal")]_vars

(* C10: the queue is sorted by key when the line pass runs, a queued    *)
(* finding is printed at the line equal to its key, and once the        *)
(* processing of the file is over every finding the tree pass queued    *)
(* was printed exactly once and the queue is empty.                     *)
C10_QueueDelivered ==
    /\ pc = "line_pass"
          => \A i \in 1..Len(warning_queue) : \A j \in i..Len(warning_queue) :
                warning_queue[i].key <= warning_queue[j].key
    /\ \A i \in 1..Len(printed) : printed[i].pass = "tree" => printed[i].at = printed[i].key
    /\ FileEnded => (SeqToBag(Delivered) = placed /\ warning_queue = <<>>)

(* The same, for the files whose tree pass returns: what was queued is *)
(* what was printed plus what still waits.                             *)
QueueConserved ==
    pc \in {"line_pass", "check_path_loop", "done"}
        => /\ SeqToBag(Delivered) (+) SeqToBag(warning_queue) = placed
           /\ (pc # "line_pass" \/ file2 = <<>>) => warning_queue = <<>>

============================================================================
